---------------------------- MODULE Spec2Model ----------------------------
(***************************************************************************)
(* A model of bs-qt-ui (src/app.py, src/aio.py): the EntityBox pipeline    *)
(* fetch -> extract -> render -> transform, and the MainWindow handlers    *)
(* that drive it.                                                          *)
(*                                                                         *)
(* Text is modelled as sequences of tokens.  A Python str that the code    *)
(* inspects character by character (the transform source, the URL, the     *)
(* filter pattern, class names, element text) is a sequence of short       *)
(* strings; markup is a sequence of token records [k, n, c].               *)
(* An optional value (None | v) is the sequence <<>> | <<v>>.              *)
(***************************************************************************)
EXTENDS Integers, Sequences, FiniteSets, TLC

None == <<>>
Some(v) == <<v>>
Get(o) == o[1]

Range(s) == {s[i] : i \in 1..Len(s)}

RECURSIVE Concat(_)
\* ''.join(seq of strings)
Concat(ss) == IF ss = <<>> THEN <<>> ELSE Head(ss) \o Concat(Tail(ss))

(***************************************************************************)
(* Python str operations used by the code, on token sequences.             *)
(***************************************************************************)
IsSpace(t) == t \in {" ", "\n", "\t"}

RECURSIVE LStrip(_)
LStrip(s) == IF s # <<>> /\ IsSpace(Head(s)) THEN LStrip(Tail(s)) ELSE s

RECURSIVE RStrip(_)
RStrip(s) ==
    IF s # <<>> /\ IsSpace(s[Len(s)]) THEN RStrip(SubSeq(s, 1, Len(s) - 1)) ELSE s

\* str.strip()
Strip(s) == RStrip(LStrip(s))

\* str.startswith(t), for a one-token prefix
StartsWith(s, t) == s # <<>> /\ Head(s) = t

\* t in s, for a one-token needle
Contains(s, t) == t \in Range(s)

\* str.index(t): the 0-based position of the first t, or -1 where Python
\* raises ValueError('substring not found')
Index(s, t) ==
    IF t \in Range(s) THEN (CHOOSE i \in 1..Len(s) : s[i] = t /\ \A j \in 1..(i - 1) : s[j] # t) - 1
    ELSE -1

\* s[a:b] with 0 <= a, 0 <= b
Slice(s, a, b) ==
    LET hi == IF b < Len(s) THEN b ELSE Len(s)
    IN IF hi <= a THEN <<>> ELSE SubSeq(s, a + 1, hi)

\* p in s, for a needle of any length
IsSubstr(p, s) == \E i \in 0..(Len(s) - Len(p)) : SubSeq(s, i + 1, i + Len(p)) = p

(***************************************************************************)
(* URL_RE.match(url): (ftp|http|https)://(\w+:?\w*@)?(\S+)...  anchored at *)
(* the start; every group after \S+ is optional, so a URL matches exactly  *)
(* when a scheme, "://" and one non-space character open it.               *)
(***************************************************************************)
URL_SCHEMES == {"ftp", "http", "https"}

URL_RE_match(url) ==
    /\ Len(url) >= 3
    /\ url[1] \in URL_SCHEMES
    /\ url[2] = "://"
    /\ ~IsSpace(url[3])

(***************************************************************************)
(* Markup tokens and the parsed tree (BeautifulSoup(resp_raw, 'lxml')).    *)
(***************************************************************************)
Tok(k, n, c) == [k |-> k, n |-> n, c |-> c]
Txt(n) == Tok("txt", n, <<>>)
NL == Tok("ws", "\n", <<>>)
BR == Tok("br", "br", <<>>)

Node(name, cls, text, kids) == [name |-> name, cls |-> cls, text |-> text, kids |-> kids]
Leaf(name, cls, text) == Node(name, cls, text, <<>>)

\* the plain characters of a string as text tokens
Chars(s) == [i \in 1..Len(s) |-> Txt(s[i])]

RECURSIVE Str(_)
\* str(tag): the serialized markup of an element
Str(n) ==
    <<Tok("open", n.name, n.cls)>> \o Chars(n.text)
        \o Concat([i \in 1..Len(n.kids) |-> Str(n.kids[i])])
        \o <<Tok("close", n.name, <<>>)>>

RECURSIVE Prettify(_)
\* soup.prettify(): every tag and every string on a line of its own
Prettify(n) ==
    <<Tok("open", n.name, n.cls), NL>>
        \o (IF n.text = <<>> THEN <<>> ELSE Chars(n.text) \o <<NL>>)
        \o Concat([i \in 1..Len(n.kids) |-> Prettify(n.kids[i])])
        \o <<Tok("close", n.name, <<>>), NL>>

RECURSIVE TagText(_)
\* tag.text: the strings of the element and of its descendants
TagText(n) == n.text \o Concat([i \in 1..Len(n.kids) |-> TagText(n.kids[i])])

RECURSIVE FindAll(_)
\* soup.find_all(): every element, in document order
FindAll(n) == <<n>> \o Concat([i \in 1..Len(n.kids) |-> FindAll(n.kids[i])])

\* The documents the network can serve, by the raw text of the response.
\* "page1": <div class="a">x</div><div class="b">a</div>
\* "page2": <main class="a"><p class="a">x</p><p class="a">x</p></main><p>a</p>
RawDocs == {"page1", "page2"}

\* BeautifulSoup(raw, 'lxml'): lxml wraps the content in html and body
Soup(raw) ==
    IF raw = "page1"
    THEN Node("html", <<>>, <<>>, <<
            Node("body", <<>>, <<>>, <<
                Leaf("div", << <<"a">> >>, <<"x">>),
                Leaf("div", << <<"b">> >>, <<"a">>) >>) >>)
    ELSE Node("html", <<>>, <<>>, <<
            Node("body", <<>>, <<>>, <<
                Node("main", << <<"a">> >>, <<>>, <<
                    Leaf("p", << <<"a">> >>, <<"x">>),
                    Leaf("p", << <<"a">> >>, <<"x">>) >>),
                Leaf("p", <<>>, <<"a">>) >>) >>)


(***************************************************************************)
(* Extractor: EntityBox.requests_extract.                                  *)
(***************************************************************************)
TAG_EXCLUDE == {"script", "meta", "head", "noscript", "svg", "html", "aside", "main"}

\* re.compile(pattern) raises re.error for an unbalanced parenthesis
ReCompiles(pattern) == ~Contains(pattern, "(") /\ ~Contains(pattern, ")")

\* regex.search(s) for a pattern of literal characters
ReSearch(pattern, s) == IsSubstr(pattern, s)

\* repr(e) of the re.error raised for the filter
ReprReError == <<Txt("error('missing ), unterminated subpattern at position 0')")>>

\* find_all(class_=regex): the elements one of whose classes the regex finds
ClassMatches(pattern, tag) == \E i \in 1..Len(tag.cls) : ReSearch(pattern, tag.cls[i])

\* the loop appending str(tag) without looking it up in repo_html
Collect_appends_all(tags, repo_html) ==
    repo_html \o [k \in 1..Len(tags) |-> Str(tags[k])]

RECURSIVE Collect(_, _)
\* the loop "if str(tag) not in repo_html: repo_html.append(str(tag))"
Collect(tags, repo_html) ==
    IF tags = <<>> THEN repo_html
    ELSE Collect(Tail(tags),
                 IF Str(Head(tags)) \in Range(repo_html) THEN repo_html
                 ELSE Append(repo_html, Str(Head(tags))))

RECURSIVE Join(_, _)
\* sep.join(parts)
Join(sep, parts) ==
    IF parts = <<>> THEN <<>>
    ELSE IF Len(parts) = 1 THEN Head(parts)
    ELSE Head(parts) \o sep \o Join(sep, Tail(parts))

\* the two loops without their test on tag.name
RepoHtml_keeps_denied(soup, filter, is_with_css) ==
    LET all == FindAll(soup)
        kept == IF is_with_css
                THEN SelectSeq(all, LAMBDA tag : ClassMatches(filter, tag))
                ELSE SelectSeq(all, LAMBDA tag : IsSubstr(filter, TagText(tag)))
    IN Collect(kept, <<>>)

\* the elements requests_extract keeps for a non-empty filter, as markup
RepoHtml(soup, filter, is_with_css) ==
    LET all == FindAll(soup)
        kept == IF is_with_css
                THEN SelectSeq(all, LAMBDA tag :
                        ClassMatches(filter, tag) /\ tag.name \notin TAG_EXCLUDE)
                ELSE SelectSeq(all, LAMBDA tag :
                        tag.name \notin TAG_EXCLUDE /\ IsSubstr(filter, TagText(tag)))
    IN Collect(kept, <<>>)

\* resp_html_sub when the except clause leaves it empty
RespHtmlSub_swallows_error(soup, filter, is_with_css) ==
    IF is_with_css /\ ~ReCompiles(filter) THEN <<>>
    ELSE Join(<<BR, NL>>, RepoHtml(soup, filter, is_with_css))

\* resp_html_sub of requests_extract (lines 215-233)
RespHtmlSub(soup, filter, is_with_css) ==
    IF is_with_css /\ ~ReCompiles(filter) THEN ReprReError
    ELSE Join(<<BR, NL>>, RepoHtml(soup, filter, is_with_css))

\* requests_extract that stores str(soup), the document as parsed and not
\* prettified, on an empty filter
requests_extract_unnormalized(eb) ==
    IF eb.status_code # 200 THEN eb
    ELSE IF Len(eb.input_filter) = 0
    THEN [eb EXCEPT !.resp_html = Some(Str(Get(eb.resp_soup)))]
    ELSE [eb EXCEPT !.resp_html =
                Some(RespHtmlSub(Get(eb.resp_soup), eb.input_filter, eb.is_with_css))]

requests_extract(eb) ==
    IF eb.status_code # 200 THEN eb
    ELSE IF Len(eb.input_filter) = 0 THEN [eb EXCEPT !.resp_html = eb.resp_html_full]
    ELSE [eb EXCEPT !.resp_html =
                Some(RespHtmlSub(Get(eb.resp_soup), eb.input_filter, eb.is_with_css))]

(***************************************************************************)
(* Presenter: ScrollDisplay.set_text.  The label is a QTextEdit document:  *)
(* rich (setText of markup) or plain (setPlainText).                       *)
(***************************************************************************)
Label(rich, text) == [rich |-> rich, text |-> text]
EmptyLabel == Label(FALSE, <<>>)

RECURSIVE Collapse(_)
\* re.sub('[\n| ]+', '\n', text)
Collapse(s) ==
    IF s = <<>> THEN <<>>
    ELSE IF Head(s).k = "ws"
         THEN IF Len(s) > 1 /\ s[2].k = "ws" THEN Collapse(Tail(s))
              ELSE <<NL>> \o Collapse(Tail(s))
         ELSE <<Head(s)>> \o Collapse(Tail(s))

\* BeautifulSoup(html, 'lxml').text: the strings between the tags
SoupText(html) == SelectSeq(html, LAMBDA t : t.k \in {"txt", "ws"})

\* the text of a rich document: tags dropped, a <br> is a line break and
\* white space between tags is not rendered
RichPlain(html) ==
    LET shown == SelectSeq(html, LAMBDA t : t.k \in {"txt", "br"})
    IN [i \in 1..Len(shown) |-> IF shown[i].k = "br" THEN NL ELSE shown[i]]

\* label.document().toPlainText()
toPlainText(label) == IF label.rich THEN RichPlain(label.text) ELSE label.text

UpperStr(s) ==
    CASE s = "a" -> "A" [] s = "b" -> "B" [] s = "x" -> "X"
      [] s = "div" -> "DIV" [] s = "p" -> "P" [] s = "main" -> "MAIN"
      [] s = "body" -> "BODY" [] s = "html" -> "HTML" [] s = "br" -> "BR"
      [] OTHER -> s

\* str.upper() on text holding markup tokens
Upper(text) ==
    [i \in 1..Len(text) |->
        [k |-> text[i].k, n |-> UpperStr(text[i].n),
         c |-> [j \in 1..Len(text[i].c) |->
                    [m \in 1..Len(text[i].c[j]) |-> UpperStr(text[i].c[j][m])]]]]

(***************************************************************************)
(* Transform functions.  A function value is [kind, name, args, body]:     *)
(* kind "def" is a function exec() defined, "lambda" is lambda x: x.       *)
(***************************************************************************)
IdentityLambda == [kind |-> "lambda", name |-> 0, args |-> <<"x">>, body |-> <<"return", " ", "x">>]

Returned(val) == [raised |-> FALSE, exc |-> "", val |-> val]
Raised(exc) == [raised |-> TRUE, exc |-> exc, val |-> None]

\* func(text): the call's result, val = None when the function returns None
Call(func, text) ==
    IF func.kind = "lambda" THEN Returned(Some(text))
    ELSE IF func.args # <<"x">>
    THEN Raised("TypeError('takes 0 positional arguments but 1 was given')")
    ELSE IF func.body = <<"return", " ", "x">> THEN Returned(Some(text))
    ELSE IF func.body = <<"return", " ", "x.upper()">> THEN Returned(Some(Upper(text)))
    ELSE IF func.body = <<"return", " ", "1/0">> THEN Raised("ZeroDivisionError('division by zero')")
    ELSE Returned(None)

\* what lines 426-427 raise: the call's exception, or setPlainText's
\* TypeError for a result that is not a str; "" when nothing is raised
TransformException(func, text) ==
    LET r == Call(func, text)
    IN IF r.raised THEN r.exc
       ELSE IF r.val = None THEN "TypeError('setPlainText(): argument 1 has unexpected type NoneType')"
       ELSE ""

\* the label after lines 410-421, before the transform
Rendered(output_option, label, html) ==
    IF output_option = 0 THEN Label(TRUE, html)
    ELSE IF output_option = 1 THEN Label(FALSE, Collapse(SoupText(html)))
    ELSE IF output_option = 2 THEN Label(FALSE, html)
    ELSE label

\* set_text without the try/except of lines 425-429
set_text_unguarded(output_option, func_transform, label, html) ==
    LET shown == Rendered(output_option, label, html)
    IN IF func_transform = None THEN [label |-> shown, raised |-> FALSE]
       ELSE IF TransformException(Get(func_transform), toPlainText(shown)) # ""
       THEN [label |-> shown, raised |-> TRUE]
       ELSE [label |-> Label(FALSE, Get(Call(Get(func_transform), toPlainText(shown)).val)),
             raised |-> FALSE]

\* ScrollDisplay.set_text(html): the new label, and whether an exception
\* leaves the method
set_text(output_option, func_transform, label, html) ==
    LET shown == Rendered(output_option, label, html)
    IN IF func_transform = None THEN [label |-> shown, raised |-> FALSE]
       ELSE LET text == toPlainText(shown)
                exc == TransformException(Get(func_transform), text)
            IN IF exc = ""
               THEN [label |-> Label(FALSE, Get(Call(Get(func_transform), text).val)),
                     raised |-> FALSE]
               ELSE [label |-> Label(FALSE, <<Txt(exc)>>), raised |-> FALSE]

(***************************************************************************)
(* EntityBox.  A handler works on h = [eb, status, requested, raised]: the *)
(* entity, the status bar message (parent.set_status), the URLs handed to  *)
(* async_fetch so far, and whether an exception is leaving the handler.    *)
(***************************************************************************)
\* EntityBox.__init__ and ScrollDisplay.__init__; uid stands for id(self)
EntityBox(uid) ==
    [uid |-> uid,
     status_code |-> -1,
     resp_raw |-> None,
     resp_soup |-> None,
     resp_html_full |-> None,
     resp_html |-> None,
     is_with_css |-> TRUE,
     func_transform |-> None,
     is_with_transform |-> FALSE,
     input_url |-> <<"https", "://">>,
     input_filter |-> <<>>,
     input_filter_enabled |-> FALSE,
     input_transform |-> <<>>,
     transform_row_visible |-> FALSE,
     transform_receivers |-> 0,
     btn_transform_checked |-> FALSE,
     btn_fetch_text |-> "Fetch",
     output_option |-> 0,
     display_func_transform |-> None,
     label |-> EmptyLabel]

Handler(eb, status, requested) ==
    [eb |-> eb, status |-> status, requested |-> requested, raised |-> FALSE]

set_status(h, msg) == [h EXCEPT !.status = msg]

\* the entity after display.set_text has run: its label, and the exception
\* set_text lets out
Shown(h, eb, shown) ==
    [h EXCEPT !.eb = [eb EXCEPT !.label = shown.label], !.raised = shown.raised]

\* send_to_display without the guard of line 239
send_to_display_unguarded(h) ==
    LET show(eb) ==
            Shown(h, eb, set_text(eb.output_option, eb.display_func_transform, eb.label,
                                  IF eb.resp_html = None THEN <<>> ELSE Get(eb.resp_html)))
    IN show(requests_extract(h.eb))

send_to_display(h) ==
    LET show(eb) ==
            Shown(h, eb, set_text(eb.output_option, eb.display_func_transform, eb.label,
                                  Get(eb.resp_html)))
    IN IF h.eb.status_code # 200 THEN h
       ELSE show(requests_extract(h.eb))

output_html(h) == send_to_display([h EXCEPT !.eb.output_option = 0])
output_clean(h) == send_to_display([h EXCEPT !.eb.output_option = 1])
output_raw(h) == send_to_display([h EXCEPT !.eb.output_option = 2])
with_css(h) == send_to_display([h EXCEPT !.eb.is_with_css = TRUE])
with_text(h) == send_to_display([h EXCEPT !.eb.is_with_css = FALSE])

err_msg == "Transformation must be a Python function starting with def f(x): and returns a value, input is malformed"

\* the textual inspection of line 326, on the stripped source
ShapeOk(fn) == StartsWith(fn, "def") /\ Contains(fn, "return")

\* exec("def name(fn_args):\n" + fn_body) defines a function when the
\* arguments are a parameter list and the body is one indented statement
ExecStatements ==
    {<<"pass">>} \cup {<<"return", " ", e>> : e \in {"x", "x.upper()", "1/0"}}

ExecOk(fn_args, fn_body) ==
    /\ fn_args \in {<<>>, <<"x">>}
    /\ Len(fn_body) >= 2
    /\ fn_body[1] \in {" ", "\t"}
    /\ LStrip(fn_body) \in ExecStatements

\* lines 325-337: locals()[fn_sig_new], or None when index() or exec() raises
Compiled(uid, source) ==
    LET fn == Strip(source)
        open == Index(fn, "(")
        close == Index(fn, ")")
        eol == Index(fn, "\n")
        fn_args == Slice(fn, open + 1, close)
        fn_body == Slice(fn, eol + 1, Len(fn))
    IN IF open < 0 \/ close < 0 \/ eol < 0 THEN None
       ELSE IF ~ExecOk(fn_args, fn_body) THEN None
       ELSE Some([kind |-> "def", name |-> uid, args |-> fn_args, body |-> LStrip(fn_body)])

\* the handler with the fallback of line 343 also installed on the display
get_from_input_and_set_transform_installs_fallback(h) ==
    LET try(func) ==
            IF func = None
            THEN send_to_display(set_status(
                    [h EXCEPT !.eb.func_transform = Some(IdentityLambda),
                              !.eb.display_func_transform = Some(IdentityLambda)], err_msg))
            ELSE send_to_display(set_status(
                    [h EXCEPT !.eb.func_transform = func,
                              !.eb.display_func_transform = func], "Transform set and ready."))
    IN try(Compiled(h.eb.uid, h.eb.input_transform))

get_from_input_and_set_transform(h) ==
    LET except(sent) ==
            IF sent.raised
            THEN set_status([sent EXCEPT !.eb.func_transform = Some(IdentityLambda),
                                         !.raised = FALSE], err_msg)
            ELSE sent
        try(func) ==
            IF func = None
            THEN set_status([h EXCEPT !.eb.func_transform = Some(IdentityLambda)], err_msg)
            ELSE except(send_to_display(set_status(
                    [h EXCEPT !.eb.func_transform = func,
                              !.eb.display_func_transform = func],
                    "Transform set and ready.")))
    IN try(Compiled(h.eb.uid, h.eb.input_transform))

\* enable_transform whose else branch leaves the display's transform in place
enable_transform_keeps_display(h, enable) ==
    IF enable
    THEN set_status(get_from_input_and_set_transform(
            [h EXCEPT !.eb.is_with_transform = TRUE,
                      !.eb.transform_row_visible = TRUE,
                      !.eb.transform_receivers = @ + 1]), "Transform enabled.")
    ELSE set_status([h EXCEPT !.eb.is_with_transform = FALSE,
                              !.eb.transform_row_visible = FALSE,
                              !.eb.transform_receivers = 0,
                              !.eb.func_transform = None], "Transform disabled.")

enable_transform(h, enable) ==
    IF enable
    THEN set_status(get_from_input_and_set_transform(
            [h EXCEPT !.eb.is_with_transform = TRUE,
                      !.eb.transform_row_visible = TRUE,
                      !.eb.transform_receivers = @ + 1]), "Transform enabled.")
    ELSE set_status([h EXCEPT !.eb.is_with_transform = FALSE,
                              !.eb.transform_row_visible = FALSE,
                              !.eb.transform_receivers = 0,
                              !.eb.func_transform = None,
                              !.eb.display_func_transform = None], "Transform disabled.")

(***************************************************************************)
(* Fetcher: EntityBox.requests_get.  An outcome is what                    *)
(* async_fetch(url).result() does: raise (a transport error) or return a   *)
(* response with a status code and a text.                                 *)
(***************************************************************************)
HTTP_OK == 200

TransportError == [kind |-> "error", status_code |-> 0, text |-> ""]
Response(status_code, text) == [kind |-> "response", status_code |-> status_code, text |-> text]

MsgInvalidUrl == "The provided URL is invalid. It must starts with [ http(s):// ]."
MsgTransportError == "ConnectionError()"
MsgResponse == "<Response [404]>"
MsgFetchOk == "URL Fetch succeeded."
FetchFailureMsgs == {MsgInvalidUrl, MsgTransportError, MsgResponse}

\* the branch for status code 200 without its call of enable_transform
requests_get_ok_keeps_transform(h, resp) ==
    LET parsed(off, soup) ==
            [off EXCEPT !.eb.status_code = resp.status_code,
                        !.eb.resp_raw = Some(resp.text),
                        !.eb.resp_soup = Some(soup),
                        !.eb.resp_html_full = Some(Prettify(soup)),
                        !.eb.btn_fetch_text = "Re-fetch",
                        !.eb.input_filter_enabled = TRUE]
        succeeded(sent) == IF sent.raised THEN sent ELSE set_status(sent, MsgFetchOk)
    IN succeeded(send_to_display(parsed(h, Soup(resp.text))))

\* lines 181-194, the branch for status code 200
requests_get_ok(h, resp) ==
    LET parsed(off, soup) ==
            [off EXCEPT !.eb.status_code = resp.status_code,
                        !.eb.resp_raw = Some(resp.text),
                        !.eb.resp_soup = Some(soup),
                        !.eb.resp_html_full = Some(Prettify(soup)),
                        !.eb.btn_fetch_text = "Re-fetch",
                        !.eb.input_filter_enabled = TRUE]
        succeeded(sent) == IF sent.raised THEN sent ELSE set_status(sent, MsgFetchOk)
    IN succeeded(send_to_display(parsed(enable_transform(h, FALSE), Soup(resp.text))))

\* requests_get that forgets what it had cached when the fetch fails
requests_get_resets_on_failure(h, outcome) ==
    LET cleared == [h EXCEPT !.eb.status_code = -1, !.eb.resp_raw = None,
                             !.eb.resp_soup = None, !.eb.resp_html_full = None,
                             !.eb.resp_html = None, !.eb.label = EmptyLabel]
        asked == [cleared EXCEPT !.requested = @ \cup {h.eb.input_url}]
    IN IF ~URL_RE_match(h.eb.input_url) THEN set_status(cleared, MsgInvalidUrl)
       ELSE IF outcome.kind = "error" THEN set_status(asked, MsgTransportError)
       ELSE IF outcome.status_code = HTTP_OK
       THEN requests_get_ok([h EXCEPT !.requested = @ \cup {h.eb.input_url}], outcome)
       ELSE set_status(asked, MsgResponse)

\* requests_get without the return of line 171
requests_get_fetches_invalid_url(h, outcome) ==
    LET asked == [h EXCEPT !.requested = @ \cup {h.eb.input_url}]
        told == IF URL_RE_match(h.eb.input_url) THEN asked ELSE set_status(asked, MsgInvalidUrl)
    IN IF outcome.kind = "error" THEN set_status(told, MsgTransportError)
       ELSE IF outcome.status_code = HTTP_OK THEN requests_get_ok(told, outcome)
       ELSE set_status(told, MsgResponse)

\* requests_get that stores the status code before it tests it
requests_get_stores_any_status(h, outcome) ==
    LET asked == [h EXCEPT !.requested = @ \cup {h.eb.input_url}]
    IN IF ~URL_RE_match(h.eb.input_url) THEN set_status(h, MsgInvalidUrl)
       ELSE IF outcome.kind = "error" THEN set_status(asked, MsgTransportError)
       ELSE IF outcome.status_code = HTTP_OK THEN requests_get_ok(asked, outcome)
       ELSE set_status([asked EXCEPT !.eb.status_code = outcome.status_code], MsgResponse)

requests_get(h, outcome) ==
    LET asked == [h EXCEPT !.requested = @ \cup {h.eb.input_url}]
    IN IF ~URL_RE_match(h.eb.input_url) THEN set_status(h, MsgInvalidUrl)
       ELSE IF outcome.kind = "error" THEN set_status(asked, MsgTransportError)
       ELSE IF outcome.status_code = HTTP_OK THEN requests_get_ok(asked, outcome)
       ELSE set_status(asked, MsgResponse)

(***************************************************************************)
(* The persisted record: to_config and from_config.                        *)
(***************************************************************************)
to_config(eb) ==
    [url |-> eb.input_url,
     filter |-> eb.input_filter,
     is_with_css |-> eb.is_with_css,
     output_option |-> eb.output_option,
     is_with_transform |-> eb.is_with_transform,
     transform |-> IF eb.func_transform # None THEN eb.input_transform ELSE <<>>]

RECURSIVE TextChanged(_, _)
\* input_transform.textChanged: one call per connected receiver
TextChanged(receivers, h) ==
    IF receivers = 0 THEN h
    ELSE TextChanged(receivers - 1, get_from_input_and_set_transform(h))

\* the filter's textChanged connected to requests_get: every edit re-fetches
SetFilterText_refetches(h, text) ==
    IF text = h.eb.input_filter THEN h
    ELSE requests_get([h EXCEPT !.eb.input_filter = text], Response(HTTP_OK, "page2"))

\* input_filter.setText(text): textChanged fires when the text changes
SetFilterText(h, text) ==
    IF text = h.eb.input_filter THEN h
    ELSE send_to_display([h EXCEPT !.eb.input_filter = text])

\* input_transform.setPlainText(text)
SetTransformText(h, text) ==
    IF text = h.eb.input_transform THEN h
    ELSE TextChanged(h.eb.transform_receivers, [h EXCEPT !.eb.input_transform = text])

from_config(h, cfg, outcome) ==
    LET url == [h EXCEPT !.eb.input_url = cfg.url]
        filter == SetFilterText(url, cfg.filter)
        flags == [filter EXCEPT !.eb.is_with_css = cfg.is_with_css,
                                !.eb.output_option = cfg.output_option,
                                !.eb.is_with_transform = cfg.is_with_transform]
        source == SetTransformText(flags, cfg.transform)
        checked(fetched) ==
            IF fetched.raised THEN fetched
            ELSE IF fetched.eb.is_with_transform
            THEN enable_transform([fetched EXCEPT !.eb.btn_transform_checked = TRUE], TRUE)
            ELSE fetched
    IN checked(requests_get(source, outcome))

(***************************************************************************)
(* MainWindow.  A window handler works on                                  *)
(* w = [list, status, requested, raised, calls]; calls lists, in order,    *)
(* the positions of the entities whose requests_get the handler's loops    *)
(* have called.                                                            *)
(***************************************************************************)
Window(list, status, requested) ==
    [list |-> list, status |-> status, requested |-> requested, raised |-> FALSE,
     calls |-> <<>>]

add_display(w) ==
    [w EXCEPT !.list = Append(@, EntityBox(Len(@) + 1)), !.status = "Added new widget"]

rmv_display(w) ==
    IF Len(w.list) > 0
    THEN [w EXCEPT !.list = SubSeq(@, 1, Len(@) - 1), !.status = "Removed bottom most widget"]
    ELSE [w EXCEPT !.status = "Cannot remove widget"]

RECURSIVE RmvTimes(_, _)
RmvTimes(n, w) == IF n = 0 THEN w ELSE RmvTimes(n - 1, rmv_display(w))

\* rmv_all_display whose loop stops one entity short
rmv_all_display_keeps_one(w) ==
    [RmvTimes(IF Len(w.list) > 0 THEN Len(w.list) - 1 ELSE 0, w)
        EXCEPT !.status = "Removed all widgets"]

rmv_all_display(w) ==
    [RmvTimes(Len(w.list), w) EXCEPT !.status = "Removed all widgets"]

RECURSIVE FetchFrom_stops_on_failure(_, _, _)
\* the loop of fetch_all leaving at the first entity whose fetch fails
FetchFrom_stops_on_failure(k, w, outcomes) ==
    IF k > Len(w.list) \/ w.raised \/ (k > 1 /\ w.status \in FetchFailureMsgs) THEN w
    ELSE LET fetched(h) ==
                 [list |-> [w.list EXCEPT ![k] = h.eb],
                  status |-> h.status,
                  requested |-> h.requested,
                  raised |-> h.raised,
                  calls |-> Append(w.calls, k)]
         IN FetchFrom_stops_on_failure(k + 1,
                      fetched(requests_get(Handler(w.list[k], w.status, w.requested),
                                           outcomes[k])),
                      outcomes)

RECURSIVE FetchFrom(_, _, _)
\* the loop of lines 564-565 from position k on: eb.requests_get() in list
\* order, stopped by an exception
FetchFrom(k, w, outcomes) ==
    IF k > Len(w.list) \/ w.raised THEN w
    ELSE LET fetched(h) ==
                 [list |-> [w.list EXCEPT ![k] = h.eb],
                  status |-> h.status,
                  requested |-> h.requested,
                  raised |-> h.raised,
                  calls |-> Append(w.calls, k)]
         IN FetchFrom(k + 1,
                      fetched(requests_get(Handler(w.list[k], w.status, w.requested),
                                           outcomes[k])),
                      outcomes)

fetch_all(w, outcomes) == FetchFrom(1, w, outcomes)

\* the time of day in the message is left out
MsgRefreshed == "Auto refreshed at"
MsgRefreshStopped == "Auto refresh stopped."

\* the slot set_refresh connects to refresh_timer.timeout
fetch_all_with_time(w, outcomes) ==
    LET timed(fetched) ==
            IF fetched.raised THEN fetched ELSE [fetched EXCEPT !.status = MsgRefreshed]
    IN timed(fetch_all(w, outcomes))

RECURSIVE Timeout(_, _, _)
\* refresh_timer.timeout: every connected slot runs, in connection order;
\* passes[n] holds the outcomes of the fetches of the n-th remaining slot
Timeout(receivers, w, passes) ==
    IF receivers = 0 \/ w.raised THEN w
    ELSE Timeout(receivers - 1, fetch_all_with_time(w, passes[receivers]), passes)

\* config.json: missing, not JSON, or the records json.dump wrote
NoFile == [kind |-> "missing", records |-> <<>>]
BadFile == [kind |-> "malformed", records |-> <<>>]
JsonFile(records) == [kind |-> "json", records |-> records]

\* json.dump writes the integer key idx as a string
JsonKey(idx) == CASE idx = 0 -> "0" [] idx = 1 -> "1" [] idx = 2 -> "2" [] OTHER -> "n"

\* save_config: global_cfg[idx] = eb.to_config(), dumped in list order
SavedFile(list) ==
    JsonFile([k \in 1..Len(list) |-> [key |-> JsonKey(k - 1), cfg |-> to_config(list[k])]])

MsgNotFound == "config.json not found in current working directory. Check if file exists."
MsgCorrupted == "config.json may be corrupted. Try recreating proper file with Save Config."
MsgLoaded == "Load config succeeded."

RECURSIVE LoadRecords(_, _, _)
\* the loop of lines 613-615: add_display().from_config(cfg_), stopped by
\* an exception
LoadRecords(w, records, outcomes) ==
    IF records = <<>> \/ w.raised THEN w
    ELSE LET configured(list, h) ==
                 [list |-> [list EXCEPT ![Len(list)] = h.eb],
                  status |-> h.status,
                  requested |-> h.requested,
                  raised |-> h.raised,
                  calls |-> Append(w.calls, Len(list))]
             load(added) ==
                 configured(added.list,
                     from_config(Handler(added.list[Len(added.list)], added.status,
                                         added.requested),
                                 Head(records).cfg, Head(outcomes)))
         IN LoadRecords(load(add_display(w)), Tail(records), Tail(outcomes))

\* load_config: a file that is not JSON leaves cfg unbound, and the loop of
\* line 613 raises NameError past the handler
load_config(w, file, outcomes) ==
    LET succeeded(loaded) ==
            IF loaded.raised THEN loaded ELSE [loaded EXCEPT !.status = MsgLoaded]
        read(cleared) ==
            IF file.kind = "missing" THEN [cleared EXCEPT !.status = MsgLoaded]
            ELSE IF file.kind = "malformed"
            THEN [cleared EXCEPT !.status = MsgCorrupted, !.raised = TRUE]
            ELSE succeeded(LoadRecords(cleared, file.records, outcomes))
    IN read(rmv_all_display(w))

(***************************************************************************)
(* The state.                                                              *)
(***************************************************************************)
VARIABLES
    list_entity_box,  \* MainWindow.list_entity_box
    status_bar,       \* the message of MainWindow.status_bar
    requested,        \* the URLs handed to async_fetch so far
    escaped,          \* an exception has left a handler
    config_file,      \* ./config.json
    exported,         \* for each record of config_file, the entity it was exported from
    calls,            \* the requests_get calls of the window's last fetch or load pass
    timer_active,     \* MainWindow.refresh_timer is running
    timeout_receivers, \* the slots connected to refresh_timer.timeout
    flight            \* the call of async_fetch the GUI thread is in, if any

vars == <<list_entity_box, status_bar, requested, escaped, config_file, exported,
          calls, timer_active, timeout_receivers, flight>>

\* No call of async_fetch is in progress.  In a call, pc is the line of
\* aio.py (or of requests_get) the GUI thread is at, box the entity fetched,
\* worker the state of the executor's thread, done whether the future holds
\* its outcome.
NoFlight ==
    [pc |-> "idle", box |-> 0, worker |-> "none", done |-> FALSE, outcome |-> TransportError]

\* the state after MainWindow.__init__ (one EntityBox, line 525)
Init ==
    /\ list_entity_box = <<EntityBox(1)>>
    /\ status_bar = "Initialization completed."
    /\ requested = {}
    /\ escaped = FALSE
    /\ config_file = NoFile
    /\ exported = <<>>
    /\ calls = <<>>
    /\ timer_active = FALSE
    /\ timeout_receivers = 0
    /\ flight = NoFlight

\* the most entities the window holds in the model
MaxBoxes == 2
BoxIds == 1..MaxBoxes

Boxes == 1..Len(list_entity_box)

\* handler h starts on entity i
On(i) == Handler(list_entity_box[i], status_bar, requested)

\* compiled functions kept under one name shared by all entities: the
\* function an entity compiles replaces the one the others hold
Done_shares_function(i, h) ==
    /\ list_entity_box' =
            [k \in Boxes |->
                IF k = i THEN h.eb
                ELSE IF list_entity_box[k].func_transform # None
                        /\ h.eb.func_transform # None
                THEN [list_entity_box[k] EXCEPT !.func_transform = h.eb.func_transform]
                ELSE list_entity_box[k]]
    /\ status_bar' = h.status
    /\ requested' = h.requested
    /\ escaped' = h.raised
    /\ flight.pc = "idle"
    /\ UNCHANGED <<config_file, exported, calls, timer_active, timeout_receivers, flight>>

\* handler h has run on entity i
Done(i, h) ==
    /\ list_entity_box' = [list_entity_box EXCEPT ![i] = h.eb]
    /\ status_bar' = h.status
    /\ requested' = h.requested
    /\ escaped' = h.raised
    /\ flight.pc = "idle"
    /\ UNCHANGED <<config_file, exported, calls, timer_active, timeout_receivers, flight>>

\* btn_fetch.clicked
ClickFetch(i, outcome) ==
    /\ ~escaped /\ i \in Boxes
    /\ Done(i, requests_get(On(i), outcome))

\* the user edits input_url: no slot is connected
EditUrl(i, url) ==
    /\ ~escaped /\ i \in Boxes
    /\ url # list_entity_box[i].input_url
    /\ Done(i, [On(i) EXCEPT !.eb.input_url = url])

\* the user edits input_filter (enabled by the first good fetch):
\* textChanged -> send_to_display
EditFilter(i, filter) ==
    /\ ~escaped /\ i \in Boxes
    /\ list_entity_box[i].input_filter_enabled
    /\ filter # list_entity_box[i].input_filter
    /\ Done(i, SetFilterText(On(i), filter))

ClickHtml(i) == ~escaped /\ i \in Boxes /\ Done(i, output_html(On(i)))
ClickClean(i) == ~escaped /\ i \in Boxes /\ Done(i, output_clean(On(i)))
ClickRaw(i) == ~escaped /\ i \in Boxes /\ Done(i, output_raw(On(i)))
ClickCss(i) == ~escaped /\ i \in Boxes /\ Done(i, with_css(On(i)))
ClickText(i) == ~escaped /\ i \in Boxes /\ Done(i, with_text(On(i)))

\* btn_transform.clicked(checked): the checkable button toggles
ClickTransform(i) ==
    /\ ~escaped /\ i \in Boxes
    /\ Done(i, enable_transform(
            [On(i) EXCEPT !.eb.btn_transform_checked = ~@],
            ~list_entity_box[i].btn_transform_checked))

\* the user edits input_transform, which is shown while row 4 is visible
EditTransform(i, source) ==
    /\ ~escaped /\ i \in Boxes
    /\ list_entity_box[i].transform_row_visible
    /\ source # list_entity_box[i].input_transform
    /\ Done(i, SetTransformText(On(i), source))

\* the six attributes of an entity's configuration
Attributes(eb) ==
    [url |-> eb.input_url,
     filter_pattern |-> eb.input_filter,
     filter_mode |-> eb.is_with_css,
     output_mode |-> eb.output_option,
     transform_enabled |-> eb.is_with_transform,
     transform_source |-> eb.input_transform]

\* btn_save_config.clicked; the working directory os.getcwd() is written "."
SaveConfig ==
    /\ ~escaped
    /\ config_file' = SavedFile(list_entity_box)
    /\ exported' = [k \in Boxes |-> Attributes(list_entity_box[k])]
    /\ status_bar' = "Config saved to ./config.json"
    /\ flight.pc = "idle"
    /\ UNCHANGED <<list_entity_box, requested, escaped, calls, timer_active,
                   timeout_receivers, flight>>

\* window handler w has run
WindowDone(w) ==
    /\ list_entity_box' = w.list
    /\ status_bar' = w.status
    /\ requested' = w.requested
    /\ escaped' = w.raised
    /\ calls' = w.calls
    /\ flight.pc = "idle"
    /\ UNCHANGED <<config_file, exported, timer_active, timeout_receivers, flight>>

\* btn_load_config.clicked
LoadConfig(outcomes) ==
    /\ ~escaped
    /\ WindowDone(load_config(Window(list_entity_box, status_bar, requested),
                              config_file, outcomes))

\* btn_add_display.clicked
AddDisplay ==
    /\ ~escaped
    /\ Len(list_entity_box) < MaxBoxes
    /\ WindowDone([add_display(Window(list_entity_box, status_bar, requested))
                      EXCEPT !.calls = calls])

\* btn_rmv_display.clicked
RmvDisplay ==
    /\ ~escaped
    /\ WindowDone([rmv_display(Window(list_entity_box, status_bar, requested))
                      EXCEPT !.calls = calls])

\* btn_fetch_all.clicked
FetchAll(outcomes) ==
    /\ ~escaped
    /\ WindowDone(fetch_all(Window(list_entity_box, status_bar, requested), outcomes))

\* the most slots connected to refresh_timer.timeout in the model
MaxConnects == 2

\* chk_auto_refresh.clicked(check_state): set_refresh; the check box toggles,
\* so check_state is the negation of the timer's state
ClickAutoRefresh ==
    /\ ~escaped
    /\ IF ~timer_active
       THEN /\ timeout_receivers < MaxConnects
            /\ timeout_receivers' = timeout_receivers + 1
            /\ timer_active' = TRUE
            /\ UNCHANGED status_bar
       ELSE /\ timer_active' = FALSE
            /\ status_bar' = MsgRefreshStopped
            /\ UNCHANGED timeout_receivers
    /\ flight.pc = "idle"
    /\ UNCHANGED <<list_entity_box, requested, escaped, config_file, exported, calls,
                   flight>>

\* refresh_timer.timeout, every five minutes while the timer runs
RefreshTimeout(passes) ==
    /\ ~escaped
    /\ timer_active
    /\ WindowDone(Timeout(timeout_receivers,
                          Window(list_entity_box, status_bar, requested), passes))

\* config.json is removed, or overwritten with text that is not JSON, by
\* another program
FileRemoved ==
    /\ config_file # NoFile
    /\ config_file' = NoFile
    /\ UNCHANGED <<list_entity_box, status_bar, requested, escaped, exported, calls,
                   timer_active, timeout_receivers, flight>>

FileCorrupted ==
    /\ config_file # BadFile
    /\ config_file' = BadFile
    /\ UNCHANGED <<list_entity_box, status_bar, requested, escaped, exported, calls,
                   timer_active, timeout_receivers, flight>>

(***************************************************************************)
(* btn_fetch.clicked step by step: the GUI thread inside async_fetch       *)
(* (aio.py lines 6-9) and the thread of its ThreadPoolExecutor.            *)
(***************************************************************************)
\* the GUI thread cannot go past pc: concurrent.futures.wait (line 8) and
\* future.result() (app.py line 176) wait for the future, and leaving the
\* with block (line 9) is shutdown(wait=True), which joins the worker
Blocks_only_result(pc, worker, done) == pc = "result" /\ ~done

Blocks(pc, worker, done) ==
    \/ pc = "wait" /\ ~done
    \/ pc = "exit" /\ worker # "exited"
    \/ pc = "result" /\ ~done

frame_flight ==
    UNCHANGED <<list_entity_box, status_bar, requested, escaped, config_file, exported,
                calls, timer_active, timeout_receivers>>

\* requests_get up to executor.submit (aio.py line 7), for a URL that
\* URL_RE matches
FetchSubmit(i) ==
    /\ ~escaped /\ i \in Boxes
    /\ flight.pc = "idle"
    /\ URL_RE_match(list_entity_box[i].input_url)
    /\ flight' = [NoFlight EXCEPT !.pc = "wait", !.box = i, !.worker = "queued"]
    /\ frame_flight

\* the executor's thread takes the work item and calls requests.get
WorkerStarts ==
    /\ flight.worker = "queued"
    /\ flight' = [flight EXCEPT !.worker = "running"]
    /\ frame_flight

\* requests.get returns or raises, and the thread sets the future
WorkerFinishes(outcome) ==
    /\ flight.worker = "running"
    /\ flight' = [flight EXCEPT !.worker = "parked", !.done = TRUE, !.outcome = outcome]
    /\ frame_flight

\* the thread ends once it has no work left and the executor is shut down,
\* which leaving the with block does
WorkerExits ==
    /\ flight.worker = "parked"
    /\ flight.pc \in {"exit", "result"}
    /\ flight' = [flight EXCEPT !.worker = "exited"]
    /\ frame_flight

\* concurrent.futures.wait([future]) returns (line 8)
WaitReturns ==
    /\ flight.pc = "wait"
    /\ ~Blocks(flight.pc, flight.worker, flight.done)
    /\ flight' = [flight EXCEPT !.pc = "exit"]
    /\ frame_flight

\* the with block is left and async_fetch returns the future (line 9)
AsyncFetchReturns ==
    /\ flight.pc = "exit"
    /\ ~Blocks(flight.pc, flight.worker, flight.done)
    /\ flight' = [flight EXCEPT !.pc = "result"]
    /\ frame_flight

\* .result() returns or raises the outcome, and requests_get runs to its end
ResultReturns ==
    /\ flight.pc = "result"
    /\ ~Blocks(flight.pc, flight.worker, flight.done)
    /\ LET fetched(h) ==
            /\ list_entity_box' = [list_entity_box EXCEPT ![flight.box] = h.eb]
            /\ status_bar' = h.status
            /\ requested' = h.requested
            /\ escaped' = h.raised
       IN fetched(requests_get(On(flight.box), flight.outcome))
    /\ flight' = NoFlight
    /\ UNCHANGED <<config_file, exported, calls, timer_active, timeout_receivers>>

(***************************************************************************)
(* Inputs.                                                                 *)
(***************************************************************************)
UrlDefault == <<"https", "://">>
UrlPage == <<"https", "://", "a">>
UrlNoScheme == <<"www", ".", "a">>
Urls == {UrlDefault, UrlPage, UrlNoScheme}

Filters == {<<>>, <<"a">>, <<"(">>}

SrcUpper == <<"def", " ", "f", "(", "x", ")", ":", "\n", " ", "return", " ", "x.upper()", "\n">>
SrcDivZero == <<"\n", "def", " ", "f", "(", "x", ")", ":", "\n", " ", "return", " ", "1/0">>
SrcBadCode == <<"bad", " ", "code">>
SrcNoDef == <<"f", "(", "x", ")", ":", "\n", " ", "return", " ", "x.upper()">>
SrcNoReturn == <<"def", " ", "f", "(", "x", ")", ":", "\n", " ", "pass">>
SrcOneLine == <<"def", " ", "f", "(", "x", ")", ":", " ", "return", " ", "x">>
Sources == {<<>>, SrcUpper, SrcDivZero, SrcBadCode, SrcNoDef, SrcNoReturn, SrcOneLine}

Outcomes ==
    {TransportError, Response(404, "")} \cup {Response(HTTP_OK, raw) : raw \in RawDocs}

Next ==
    \E i \in BoxIds :
        \/ \E outcome \in Outcomes : ClickFetch(i, outcome)
        \/ \E url \in Urls : EditUrl(i, url)
        \/ \E filter \in Filters : EditFilter(i, filter)
        \/ ClickHtml(i)
        \/ ClickClean(i)
        \/ ClickRaw(i)
        \/ ClickCss(i)
        \/ ClickText(i)
        \/ ClickTransform(i)
        \/ \E source \in Sources : EditTransform(i, source)

Spec == Init /\ [][Next]_vars

\* The same handlers with Save Config and Load Config, on fewer inputs.
ConfigUrls == {UrlDefault, UrlPage}
ConfigFilters == {<<>>, <<"a">>}
ConfigSources == {<<>>, SrcUpper}
ConfigOutcomes == {Response(404, ""), Response(HTTP_OK, "page1")}

NextConfig ==
    \/ \E i \in BoxIds :
        \/ \E outcome \in ConfigOutcomes : ClickFetch(i, outcome)
        \/ \E url \in ConfigUrls : EditUrl(i, url)
        \/ \E filter \in ConfigFilters : EditFilter(i, filter)
        \/ ClickRaw(i)
        \/ ClickText(i)
        \/ ClickTransform(i)
        \/ \E source \in ConfigSources : EditTransform(i, source)
    \/ SaveConfig
    \/ \E outcomes \in [BoxIds -> ConfigOutcomes] : LoadConfig(outcomes)

SpecConfig == Init /\ [][NextConfig]_vars

\* Two entities: the window's add, remove and fetch all, and each entity's
\* own handlers on few inputs.
PairUrls == {UrlPage}
PairSources == {SrcDivZero, SrcBadCode}
WindowOutcomes == {TransportError, Response(HTTP_OK, "page1")}

NextPair ==
    \/ \E i \in BoxIds :
        \/ \E outcome \in WindowOutcomes : ClickFetch(i, outcome)
        \/ \E url \in PairUrls : EditUrl(i, url)
        \/ ClickRaw(i)
        \/ ClickTransform(i)
        \/ \E source \in PairSources : EditTransform(i, source)
    \/ AddDisplay
    \/ RmvDisplay
    \/ \E outcomes \in [BoxIds -> WindowOutcomes] : FetchAll(outcomes)

SpecPair == Init /\ [][NextPair]_vars

\* Two entities side by side, each driven by its own widgets.
PairFilters == {<<>>, <<"a">>}

NextIsolated ==
    \/ \E i \in BoxIds :
        \/ \E outcome \in WindowOutcomes : ClickFetch(i, outcome)
        \/ \E url \in PairUrls : EditUrl(i, url)
        \/ \E filter \in PairFilters : EditFilter(i, filter)
        \/ ClickCss(i)
        \/ ClickText(i)
        \/ ClickTransform(i)
        \/ \E source \in PairSources : EditTransform(i, source)
    \/ AddDisplay

SpecIsolated == Init /\ [][NextIsolated]_vars

\* One entity fetched by its button, by fetch all, by the refresh timer and
\* by loading the config file, which other programs may remove or overwrite.
WindowUrls == {UrlPage, UrlNoScheme}
WindowSources == {SrcUpper}

NextWindow ==
    \/ \E i \in BoxIds :
        \/ \E outcome \in WindowOutcomes : ClickFetch(i, outcome)
        \/ \E url \in WindowUrls : EditUrl(i, url)
        \/ ClickTransform(i)
        \/ \E source \in WindowSources : EditTransform(i, source)
    \/ \E outcomes \in [BoxIds -> WindowOutcomes] : FetchAll(outcomes)
    \/ ClickAutoRefresh
    \/ \E passes \in [1..MaxConnects -> [BoxIds -> WindowOutcomes]] : RefreshTimeout(passes)
    \/ SaveConfig
    \/ \E outcomes \in [BoxIds -> WindowOutcomes] : LoadConfig(outcomes)
    \/ FileRemoved
    \/ FileCorrupted

SpecWindow == Init /\ [][NextWindow]_vars

\* Up to MaxBoxes entities added, removed, edited and fetched, saved to
\* config.json and loaded from it.
NextReplace ==
    \/ \E i \in BoxIds :
        \/ \E outcome \in WindowOutcomes : ClickFetch(i, outcome)
        \/ \E url \in WindowUrls : EditUrl(i, url)
    \/ AddDisplay
    \/ RmvDisplay
    \/ SaveConfig
    \/ \E outcomes \in [BoxIds -> WindowOutcomes] : LoadConfig(outcomes)

SpecReplace == Init /\ [][NextReplace]_vars

\* One entity whose fetch runs step by step, with the executor's thread.
NextAsync ==
    \/ \E i \in BoxIds :
        \/ FetchSubmit(i)
        \/ \E url \in WindowUrls : EditUrl(i, url)
        \/ ClickRaw(i)
        \/ ClickTransform(i)
        \/ \E source \in WindowSources : EditTransform(i, source)
    \/ WorkerStarts
    \/ \E outcome \in WindowOutcomes : WorkerFinishes(outcome)
    \/ WorkerExits
    \/ WaitReturns
    \/ AsyncFetchReturns
    \/ ResultReturns

SpecAsync == Init /\ [][NextAsync]_vars

(***************************************************************************)
(* Properties.                                                             *)
(***************************************************************************)
Box(i) == list_entity_box[i]

\* a step of a handler that only re-runs extract and render on entity i
RenderStep(i) ==
    \/ ClickHtml(i) \/ ClickClean(i) \/ ClickRaw(i) \/ ClickCss(i) \/ ClickText(i)
    \/ \E filter \in Filters : EditFilter(i, filter)

\* a step of requests_get on entity i that ends in a failure
FailedFetchStep(i) ==
    /\ status_bar' \in FetchFailureMsgs
    /\ \E outcome \in Outcomes : ClickFetch(i, outcome)

\* a step that compiles the transform source of entity i
CompileStep(i) ==
    \/ ClickTransform(i) /\ list_entity_box'[i].is_with_transform
    \/ \E source \in Sources : EditTransform(i, source)

\* the render of the entity's fragment in its output mode, no transform applied
Untransformed(eb) == Rendered(eb.output_option, eb.label, Get(eb.resp_html))

\* apply(render(extract(cached document, filter, filter mode), output mode),
\* transform-or-none), from the entity's current configuration
Pipeline(eb) ==
    set_text(eb.output_option,
             IF eb.is_with_transform THEN Compiled(eb.uid, eb.input_transform) ELSE None,
             eb.label,
             Get(requests_extract(eb).resp_html)).label

\* C1: once a fetch has succeeded, the displayed text is the pipeline's
\* result for the entity's current configuration (stated for the
\* configurations whose transform is off or compiles from a well-shaped
\* source, where the pipeline's result is not in question).
C1_DisplayFollowsConfiguration ==
    \A i \in Boxes :
        /\ Box(i).status_code = 200
        /\ \/ ~Box(i).is_with_transform
           \/ /\ ShapeOk(Strip(Box(i).input_transform))
              /\ Compiled(Box(i).uid, Box(i).input_transform) # None
        => Box(i).label = Pipeline(Box(i))

\* C2: an entity whose is_with_transform is false has no transform on its
\* display, and a render that ends with the flag false shows the
\* untransformed render.
C2_DisabledTransformInert ==
    /\ [](\A i \in Boxes :
            ~Box(i).is_with_transform => Box(i).display_func_transform = None)
    /\ [][\A i \in Boxes :
            /\ Box(i).status_code = 200
            /\ ~list_entity_box'[i].is_with_transform
            /\ RenderStep(i)
            => list_entity_box'[i].label = Untransformed(list_entity_box'[i])]_vars

\* C2's case: a disabled transform with a stale source that would compile,
\* on an entity whose document is displayed untransformed
C2_Witness ==
    \E i \in Boxes :
        /\ ~Box(i).is_with_transform
        /\ Compiled(Box(i).uid, Box(i).input_transform) # None
        /\ Box(i).status_code = 200
        /\ Box(i).label.text # <<>>
        /\ Box(i).label = Untransformed(Box(i))

\* C3: the extracted fragment is defined only if status_code is 200.
C3_FragmentOnlyWhenOk ==
    \A i \in Boxes : Box(i).resp_html # None => Box(i).status_code = 200

\* C3's case: a fragment is cached and the last fetch failed
C3_Witness ==
    \E i \in Boxes : Box(i).resp_html # None /\ status_bar \in FetchFailureMsgs

\* the cached and derived fields of an entity are unset
Unset(eb) ==
    /\ eb.status_code = -1
    /\ eb.resp_raw = None
    /\ eb.resp_soup = None
    /\ eb.resp_html = None
    /\ eb.label.text = <<>>

\* C4 as claimed: a fetch that fails leaves every cached and derived field
\* unset and keeps the configuration.
C4_FailedFetchUnsetsCache ==
    [][\A i \in Boxes :
        FailedFetchStep(i) =>
            /\ Unset(list_entity_box'[i])
            /\ Attributes(list_entity_box'[i]) = Attributes(Box(i))]_vars

\* C4 amended: a fetch that fails changes nothing of the entity, so what an
\* earlier good fetch cached stays cached and displayed.
C4_FailedFetchKeepsEntity ==
    [][\A i \in Boxes : FailedFetchStep(i) => list_entity_box'[i] = Box(i)]_vars

\* C4's case: the last fetch failed on an entity that holds a document
C4_Witness ==
    \E i \in Boxes :
        /\ status_bar \in FetchFailureMsgs
        /\ Box(i).status_code = 200
        /\ Box(i).resp_raw # None
        /\ Box(i).label.text # <<>>

\* C5: while no fetch of an entity has succeeded (status_code is still not
\* 200), its displayed text is empty.
C5_EmptyUntilFirstGoodFetch ==
    \A i \in Boxes : Box(i).status_code # 200 => Box(i).label.text = <<>>

\* C5's case: no good fetch yet, a failed fetch reported, a transform
\* installed on the display and the output mode switched
C5_Witness ==
    \E i \in Boxes :
        /\ Box(i).status_code # 200
        /\ Box(i).display_func_transform # None
        /\ Box(i).output_option = 2
        /\ ~Box(i).is_with_css
        /\ status_bar \in FetchFailureMsgs

\* C6: requests_get on a URL that URL_RE does not match reports the invalid
\* URL and hands nothing to async_fetch.
C6_InvalidUrlNoFetch ==
    [][\A i \in Boxes :
        /\ ~URL_RE_match(Box(i).input_url)
        /\ \E outcome \in Outcomes : ClickFetch(i, outcome)
        => /\ status_bar' = MsgInvalidUrl
           /\ requested' = requested
           /\ list_entity_box'[i] = Box(i)]_vars

\* C6's case: the invalid URL was reported for an entity whose URL has no
\* scheme, after another URL had been fetched
C6_Witness ==
    \E i \in Boxes :
        /\ status_bar = MsgInvalidUrl
        /\ Box(i).input_url = UrlNoScheme
        /\ requested # {}

\* what the label would show if a failed compile surfaced its error
CompileErrorTexts ==
    {<<Txt(err_msg)>>, <<Txt("ValueError('substring not found')")>>,
     <<Txt("SyntaxError('invalid syntax')")>>}

\* C7 as claimed: with a transform enabled whose source does not compile,
\* every render shows the error's description.
C7_FailedCompileShowsError ==
    [][\A i \in Boxes :
        /\ Box(i).status_code = 200
        /\ Box(i).is_with_transform
        /\ Compiled(Box(i).uid, Box(i).input_transform) = None
        /\ RenderStep(i)
        => list_entity_box'[i].label.text \in CompileErrorTexts]_vars

\* C7 amended: a compile that fails makes only the entity's own
\* func_transform the identity lambda; the display's transform and text stay
\* as they were, and an edit reports err_msg in the status bar.
C7_FailedCompileKeepsDisplay ==
    [][\A i \in Boxes :
        /\ Compiled(Box(i).uid, list_entity_box'[i].input_transform) = None
        /\ CompileStep(i)
        => /\ list_entity_box'[i].func_transform = Some(IdentityLambda)
           /\ list_entity_box'[i].display_func_transform = Box(i).display_func_transform
           /\ list_entity_box'[i].label = Box(i).label
           /\ (\E source \in Sources : EditTransform(i, source)) => status_bar' = err_msg]_vars

\* C7's case: the source stopped compiling while an earlier compiled
\* transform is on the display of a fetched entity
C7_Witness ==
    \E i \in Boxes :
        /\ Box(i).is_with_transform
        /\ Compiled(Box(i).uid, Box(i).input_transform) = None
        /\ Box(i).func_transform = Some(IdentityLambda)
        /\ Box(i).display_func_transform # None
        /\ Box(i).status_code = 200
        /\ status_bar = err_msg

\* C8: an enabled transform whose source fails the shape check (no leading
\* def, or no return) is the fallback, never a compiled function.
C8_MalformedSourceNeverInstalled ==
    \A i \in Boxes :
        Box(i).is_with_transform /\ ~ShapeOk(Strip(Box(i).input_transform))
        => /\ Box(i).func_transform = Some(IdentityLambda)
           /\ ~escaped

\* the exception the display's transform raises on the entity's render
RenderException(eb) ==
    TransformException(Get(eb.display_func_transform), toPlainText(Untransformed(eb)))

\* C9: when the installed transform raises on the rendered text, the label
\* shows the exception's repr and no exception leaves the handler; a render
\* that ends so changes neither the cached document nor the transform state.
C9_TransformExceptionShown ==
    /\ [](/\ ~escaped
          /\ \A i \in Boxes :
                /\ Box(i).status_code = 200
                /\ Box(i).display_func_transform # None
                /\ RenderException(Box(i)) # ""
                => Box(i).label = Label(FALSE, <<Txt(RenderException(Box(i)))>>))
    /\ [][\A i \in Boxes :
            /\ Box(i).status_code = 200
            /\ Box(i).display_func_transform # None
            /\ RenderStep(i)
            => LET old == Box(i)
                   new == list_entity_box'[i]
               IN /\ new.resp_raw = old.resp_raw
                  /\ new.resp_soup = old.resp_soup
                  /\ new.resp_html_full = old.resp_html_full
                  /\ new.input_url = old.input_url
                  /\ new.is_with_transform = old.is_with_transform
                  /\ new.input_transform = old.input_transform
                  /\ new.func_transform = old.func_transform
                  /\ new.display_func_transform = old.display_func_transform]_vars

\* C9's case: a fetched entity shows the repr of the ZeroDivisionError its
\* transform raised
C9_Witness ==
    \E i \in Boxes :
        /\ Box(i).status_code = 200
        /\ Box(i).display_func_transform # None
        /\ Box(i).label = Label(FALSE, <<Txt("ZeroDivisionError('division by zero')")>>)

\* a step of load_config that reads the records save_config wrote
LoadStep ==
    /\ config_file.kind = "json"
    /\ \E outcomes \in [BoxIds -> ConfigOutcomes] : LoadConfig(outcomes)

\* C10: loading the records that save_config exported yields entities with
\* the url, filter_pattern, filter_mode, output_mode, transform_enabled and
\* transform_source of the entities they were exported from, whatever the
\* fetches of the load return.
C10_ConfigRoundTrip ==
    [][LoadStep =>
        /\ Len(list_entity_box') = Len(exported)
        /\ \A k \in 1..Len(exported) :
                Attributes(list_entity_box'[k]) = exported[k]]_vars

\* a step of load_config under the outcomes of WindowOutcomes
WindowLoadStep == \E outcomes \in [BoxIds -> WindowOutcomes] : LoadConfig(outcomes)

\* C11: when load_config finds config.json missing or not JSON, no exception
\* leaves it, the entity collection ends empty and the status bar reports
\* the condition.
C11_LoadFailureReported ==
    [][/\ config_file.kind \in {"missing", "malformed"}
       /\ WindowLoadStep
       => /\ ~escaped'
          /\ list_entity_box' = <<>>
          /\ status_bar' = IF config_file.kind = "missing" THEN MsgNotFound
                           ELSE MsgCorrupted]_vars

\* a step of a handler of entity i other than requests_get
NonFetchStep(i) ==
    \/ \E url \in Urls : EditUrl(i, url)
    \/ RenderStep(i)
    \/ ClickTransform(i)
    \/ \E source \in Sources : EditTransform(i, source)

\* C12: a URL edit, filter edit, filter-mode or output-mode switch,
\* transform toggle or transform-source edit hands no URL to async_fetch and
\* leaves status_code and the cached raw, parsed and pretty-printed
\* document as they were.
C12_OnlyFetchTouchesDocument ==
    [][\A i \in Boxes :
        \/ /\ requested' = requested
           /\ list_entity_box'[i].status_code = Box(i).status_code
           /\ list_entity_box'[i].resp_raw = Box(i).resp_raw
           /\ list_entity_box'[i].resp_soup = Box(i).resp_soup
           /\ list_entity_box'[i].resp_html_full = Box(i).resp_html_full
        \/ ~NonFetchStep(i)]_vars

\* C12's case: after its fetch the entity had its URL, filter, filter mode,
\* output mode and transform changed, and only the fetched URL was requested
C12_Witness ==
    \E i \in Boxes :
        /\ Box(i).resp_raw = Some("page1")
        /\ requested = {UrlPage}
        /\ Box(i).input_url = UrlNoScheme
        /\ Box(i).input_filter = <<"a">>
        /\ ~Box(i).is_with_css
        /\ Box(i).output_option = 1
        /\ Box(i).is_with_transform
        /\ Box(i).func_transform # None
        /\ Box(i).input_transform = SrcUpper

\* C13: fetch all calls requests_get once on every entity, in list order;
\* each entity ends as its own requests_get leaves it whether or not the
\* fetches before it failed, the status bar holds the last entity's
\* message, and no exception leaves the handler.
C13_FetchAllRunsEveryEntity ==
    [][\A outcomes \in [BoxIds -> WindowOutcomes] :
        FetchAll(outcomes) =>
            /\ calls' = [k \in Boxes |-> k]
            /\ Len(list_entity_box') = Len(list_entity_box)
            /\ \A k \in Boxes :
                    list_entity_box'[k] = requests_get(On(k), outcomes[k]).eb
            /\ Boxes # {} =>
                    status_bar' = requests_get(On(Len(list_entity_box)),
                                               outcomes[Len(list_entity_box)]).status
            /\ ~escaped']_vars

\* C13's case: a fetch all over two entities, the first left unfetched with
\* its invalid URL and the second fetched
C13_Witness ==
    /\ Len(list_entity_box) = 2
    /\ calls = <<1, 2>>
    /\ ~URL_RE_match(Box(1).input_url)
    /\ Box(1).status_code = -1
    /\ Box(2).status_code = 200
    /\ status_bar = MsgFetchOk

\* C14: when async_fetch has returned, the future is done and the worker
\* has ended; and the entities and the status bar change only while no
\* fetch is in progress or after its future is done, so no extract,
\* render or transform step runs during a retrieval.
C14_FetchIsSynchronous ==
    /\ [](flight.pc = "result" => flight.done /\ flight.worker = "exited")
    /\ [][list_entity_box' # list_entity_box \/ status_bar' # status_bar
            => flight.pc = "idle" \/ flight.done]_vars

\* C14's case: async_fetch has returned the finished re-fetch of an entity
\* that shows a document under a transform
C14_Witness ==
    /\ flight.pc = "result"
    /\ flight.done
    /\ flight.outcome = Response(HTTP_OK, "page1")
    /\ Box(flight.box).status_code = 200
    /\ Box(flight.box).display_func_transform # None

\* a step of one of entity i's own handlers
EntityStep(i) ==
    \/ \E outcome \in WindowOutcomes : ClickFetch(i, outcome)
    \/ \E url \in PairUrls : EditUrl(i, url)
    \/ \E filter \in PairFilters : EditFilter(i, filter)
    \/ ClickCss(i)
    \/ ClickText(i)
    \/ ClickTransform(i)
    \/ \E source \in PairSources : EditTransform(i, source)

\* C15: a step of one entity's handler leaves every other entity as it
\* was; the entities of the list have distinct ids, and a compiled
\* function carries the id of the entity that holds it.
C15_EntitiesIsolated ==
    /\ [](\A i, j \in Boxes : i # j => Box(i).uid # Box(j).uid)
    /\ [](\A i \in Boxes :
            Box(i).func_transform # None /\ Get(Box(i).func_transform).kind = "def"
            => Get(Box(i).func_transform).name = Box(i).uid)
    /\ [][\A i, j \in Boxes :
            \/ i = j
            \/ Len(list_entity_box') = Len(list_entity_box)
                /\ list_entity_box'[j] = Box(j)
            \/ ~EntityStep(i)]_vars

\* C15's case: two fetched entities, one with a transform that raises and
\* the other with a source that does not compile
C15_Witness ==
    /\ Len(list_entity_box) = 2
    /\ \E i, j \in Boxes :
        /\ i # j
        /\ Box(i).status_code = 200
        /\ Box(j).status_code = 200
        /\ Box(i).func_transform # None
        /\ Get(Box(i).func_transform).kind = "def"
        /\ Box(i).label = Label(FALSE, <<Txt("ZeroDivisionError('division by zero')")>>)
        /\ Box(j).input_transform = SrcBadCode
        /\ Box(j).func_transform = Some(IdentityLambda)
        /\ Box(j).label.rich

\* entity i holds a fetched document and a filter the extractor can apply
Extracting(i) ==
    /\ Box(i).status_code = 200
    /\ Box(i).input_filter # <<>>
    /\ Box(i).is_with_css => ReCompiles(Box(i).input_filter)

\* the markup of the document's elements whose tag name is in the denylist
DeniedMarkup(soup) ==
    {Str(tag) : tag \in {t \in Range(FindAll(soup)) : t.name \in TAG_EXCLUDE}}

\* C16: with a non-empty filter, in class mode and in text mode, the
\* fragment is the joined markup of the collected elements, none of which
\* is an element of the document with a denylisted tag name.
C16_DenylistExcluded ==
    \A i \in Boxes :
        Extracting(i) =>
            \E repo_html \in {RepoHtml(Get(Box(i).resp_soup), Box(i).input_filter,
                                        Box(i).is_with_css)} :
                /\ Box(i).resp_html = Some(Join(<<BR, NL>>, repo_html))
                /\ Range(repo_html) \cap DeniedMarkup(Get(Box(i).resp_soup)) = {}

\* C16's case: in class mode the filter matches main, which is denied, and
\* the two p elements below it, which are collected
C16_Witness ==
    \E i \in Boxes :
        /\ Extracting(i)
        /\ Box(i).resp_soup = Some(Soup("page2"))
        /\ Box(i).is_with_css
        /\ ClassMatches(Box(i).input_filter, Get(Box(i).resp_soup).kids[1].kids[1])
        /\ Get(Box(i).resp_soup).kids[1].kids[1].name \in TAG_EXCLUDE
        /\ Box(i).resp_html # Some(<<>>)

\* the markup of the elements the filter selects, one entry per element,
\* in the order find_all yields them
Matching(soup, filter, is_with_css) ==
    LET all == FindAll(soup)
        selected == SelectSeq(all, LAMBDA tag :
                        /\ tag.name \notin TAG_EXCLUDE
                        /\ IF is_with_css THEN ClassMatches(filter, tag)
                           ELSE IsSubstr(filter, TagText(tag)))
    IN [k \in 1..Len(selected) |-> Str(selected[k])]

\* the position of the first entry of seq equal to x
FirstIndex(seq, x) ==
    CHOOSE k \in 1..Len(seq) : seq[k] = x /\ \A l \in 1..(k - 1) : seq[l] # x

\* C17: with a non-empty filter the collected entries are pairwise
\* different, they are the markup of the selected elements in the order of
\* their first occurrence in the document, and extracting again from the
\* same document and filter leaves the fragment as it is.
C17_CollectedOnceInOrder ==
    \A i \in Boxes :
        Extracting(i) =>
            \E repo_html \in {RepoHtml(Get(Box(i).resp_soup), Box(i).input_filter,
                                        Box(i).is_with_css)},
               matching \in {Matching(Get(Box(i).resp_soup), Box(i).input_filter,
                                       Box(i).is_with_css)} :
                /\ Box(i).resp_html = Some(Join(<<BR, NL>>, repo_html))
                /\ \A a, b \in 1..Len(repo_html) : a # b => repo_html[a] # repo_html[b]
                /\ Range(repo_html) = Range(matching)
                /\ \A a, b \in 1..Len(repo_html) :
                        a < b => FirstIndex(matching, repo_html[a])
                                    < FirstIndex(matching, repo_html[b])
                /\ requests_extract(Box(i)).resp_html = Box(i).resp_html

\* C17's case: two selected elements have the same markup, which the
\* fragment holds once
C17_Witness ==
    \E i \in Boxes :
        /\ Extracting(i)
        /\ \E matching \in {Matching(Get(Box(i).resp_soup), Box(i).input_filter,
                                       Box(i).is_with_css)} :
            /\ \E a, b \in 1..Len(matching) : a < b /\ matching[a] = matching[b]
            /\ Box(i).resp_html = Some(matching[1])

\* C18: while the entity holds a document fetched with status 200 and its
\* filter is empty, the fragment is the prettified full document, in class
\* mode and in text mode; clearing the filter makes it so whatever the
\* fragment was.
C18_EmptyFilterFullDocument ==
    /\ [](\A i \in Boxes :
            Box(i).status_code = 200 /\ Box(i).input_filter = <<>>
            => /\ Box(i).resp_html = Some(Prettify(Get(Box(i).resp_soup)))
               /\ Box(i).resp_html = Box(i).resp_html_full)
    /\ [][\A i \in Boxes :
            \/ Box(i).status_code # 200
            \/ list_entity_box'[i].resp_html = Some(Prettify(Get(Box(i).resp_soup)))
            \/ ~EditFilter(i, <<>>)]_vars

\* C18's case: in text mode, the filter is empty again after the first good
\* fetch enabled it, and the fragment is the full document
C18_Witness ==
    \E i \in Boxes :
        /\ Box(i).status_code = 200
        /\ Box(i).input_filter = <<>>
        /\ ~Box(i).is_with_css
        /\ Box(i).resp_soup = Some(Soup("page2"))
        /\ Box(i).resp_html = Some(Prettify(Soup("page2")))

\* entity i holds a fetched document and a filter re.compile rejects
FilterFails(eb) ==
    eb.status_code = 200 /\ eb.input_filter # <<>> /\ ~ReCompiles(eb.input_filter)

\* a step that runs the extractor of entity i in class mode on a filter
\* re.compile rejects: the filter is edited to one, or class mode is chosen
\* while the filter is one
FailingExtractStep(i) ==
    /\ Box(i).status_code = 200
    /\ \/ Box(i).is_with_css /\ \E filter \in Filters : ~ReCompiles(filter) /\ EditFilter(i, filter)
       \/ FilterFails(Box(i)) /\ ClickCss(i)

\* a step that edits such a filter of entity i into one re.compile accepts
CorrectedFilterStep(i) ==
    /\ FilterFails(Box(i)) /\ Box(i).is_with_css
    /\ \E filter \in Filters : filter # <<>> /\ ReCompiles(filter) /\ EditFilter(i, filter)

\* C19: a filter that is not a regular expression, in class mode, does not
\* make the extractor raise: the fragment is the error's repr, the display
\* is set from it, and the status code and the cached document stay, so that
\* a corrected filter extracts from the same document without a fetch.
C19_ExtractFailureShown ==
    /\ [](\A i \in Boxes :
            FilterFails(Box(i)) /\ Box(i).is_with_css
            => Box(i).resp_html = Some(ReprReError))
    /\ [][\A i \in Boxes :
            \/ /\ ~escaped'
               /\ list_entity_box'[i].status_code = 200
               /\ list_entity_box'[i].resp_soup = Box(i).resp_soup
               /\ list_entity_box'[i].resp_html = Some(ReprReError)
               /\ list_entity_box'[i].label =
                    set_text(Box(i).output_option, Box(i).display_func_transform,
                             Box(i).label, ReprReError).label
            \/ ~FailingExtractStep(i)]_vars
    /\ [][\A i \in Boxes :
            \/ ~CorrectedFilterStep(i)
            \/ /\ requested' = requested
               /\ list_entity_box'[i].resp_soup = Box(i).resp_soup
               /\ list_entity_box'[i].resp_html =
                    Some(Join(<<BR, NL>>, RepoHtml(Get(Box(i).resp_soup),
                                                   list_entity_box'[i].input_filter, TRUE)))]_vars

\* C19's case: the display shows the repr of the re.error of the filter
C19_Witness ==
    \E i \in Boxes :
        /\ FilterFails(Box(i)) /\ Box(i).is_with_css
        /\ ~escaped
        /\ Box(i).resp_html = Some(ReprReError)
        /\ Box(i).display_func_transform = None
        /\ Box(i).label = Rendered(Box(i).output_option, Box(i).label, ReprReError)

\* the response of a fetch that succeeds
FetchedOk == Response(HTTP_OK, "page1")

\* a step in which requests_get of the entity at position i ran on a valid
\* URL and got status 200: by the entity's button, by Fetch All, by a slot
\* of the refresh timer, or by from_config while the file is loaded
SuccessfulFetchStep(i) ==
    \/ /\ i \in Boxes
       /\ URL_RE_match(Box(i).input_url)
       /\ \/ ClickFetch(i, FetchedOk)
          \/ \E outcomes \in [BoxIds -> WindowOutcomes] :
                outcomes[i] = FetchedOk /\ FetchAll(outcomes)
          \/ \E passes \in [1..MaxConnects -> [BoxIds -> WindowOutcomes]] :
                /\ \E n \in 1..timeout_receivers : passes[n][i] = FetchedOk
                /\ RefreshTimeout(passes)
    \/ /\ config_file.kind = "json"
       /\ i <= Len(config_file.records)
       /\ URL_RE_match(config_file.records[i].cfg.url)
       /\ \E outcomes \in [BoxIds -> WindowOutcomes] :
                outcomes[i] = FetchedOk /\ LoadConfig(outcomes)

\* the entity as a successful fetch leaves it: the transform off, none
\* installed on the entity or on its display, and the display showing the
\* untransformed render of the fetched document
Refetched(eb) ==
    /\ eb.status_code = 200
    /\ eb.resp_soup = Some(Soup(FetchedOk.text))
    /\ ~eb.is_with_transform
    /\ eb.func_transform = None
    /\ eb.display_func_transform = None
    /\ eb.label = Untransformed(eb)

\* C20: after a step in which an entity's fetch got status 200, triggered
\* by the fetch button, Fetch All, the refresh timer or Load Config, the
\* entity's transform is off, no transform is installed and the display
\* shows the untransformed render of the document, whatever the transform
\* was before the step.
C20_SuccessfulFetchDisablesTransform ==
    [][\A i \in BoxIds :
        \/ /\ i \in DOMAIN list_entity_box'
           /\ Refetched(list_entity_box'[i])
        \/ ~SuccessfulFetchStep(i)]_vars

\* C20's case: the refresh timer has fetched an entity whose transform was
\* on (its button is still checked and its source still in the editor)
C20_Witness ==
    \E i \in Boxes :
        /\ status_bar = MsgRefreshed
        /\ Box(i).btn_transform_checked
        /\ Box(i).input_transform = SrcUpper
        /\ Refetched(Box(i))

\* a step of refresh_timer.timeout under the outcomes of WindowOutcomes
TimeoutStep ==
    \E passes \in [1..MaxConnects -> [BoxIds -> WindowOutcomes]] : RefreshTimeout(passes)

\* C21: the timer expires only while auto-refresh is enabled, and each
\* expiry runs one pass of fetch_all: requests_get is called once on every
\* entity, in list order, however often auto-refresh was enabled and
\* disabled before.
C21_OneFetchAllPerTimeout ==
    [][\/ /\ timer_active
          /\ calls' = [k \in 1..Len(list_entity_box) |-> k]
       \/ ~TimeoutStep]_vars

\* C22: loading a file of n records leaves exactly n entities; the k-th is
\* a new EntityBox configured from the k-th record and fetched, so nothing
\* of the entities held before the load is left; and requests_get has been
\* called once on each, in record order.
C22_LoadReplacesCollection ==
    [][\/ config_file.kind # "json"
       \/ /\ Len(list_entity_box') = Len(config_file.records)
          /\ \E outcomes \in [BoxIds -> WindowOutcomes] :
                \A k \in 1..Len(config_file.records) :
                    list_entity_box'[k] =
                        from_config(Handler(EntityBox(k), status_bar, requested),
                                    config_file.records[k].cfg, outcomes[k]).eb
          /\ calls' = [k \in 1..Len(config_file.records) |-> k]
       \/ ~WindowLoadStep]_vars

\* C22's case: two records with different URLs have been loaded, in their
\* order, over a collection that was not the one saved
C22_Witness ==
    /\ status_bar = MsgLoaded
    /\ config_file.kind = "json"
    /\ Len(config_file.records) = 2
    /\ Len(list_entity_box) = 2
    /\ Box(1).input_url = UrlNoScheme /\ Box(1).status_code = -1
    /\ Box(2).input_url = UrlPage /\ Box(2).status_code = 200
    /\ calls = <<1, 2>>

=============================================================================
